---- MODULE Spec2Model ----
(***************************************************************************)
(* Model of src/main.py: the background-removal pipeline                   *)
(* (border flood fill, alpha compositing, enclosed-hole removal, residual  *)
(* green cleanup, alpha erosion, edge softening).                          *)
(*                                                                         *)
(* A grid is a record [w, h, px]: px is a function on 0..w*h-1, row-major, *)
(* index y*w+x as in the code's idx(x, y).  An RGB pixel is <<r,g,b>>, an  *)
(* RGBA pixel <<r,g,b,a>>.  A mask is a function 0..w*h-1 -> {0,1}         *)
(* (the code's bytearray).                                                 *)
(***************************************************************************)
EXTENDS Integers, Sequences, FiniteSets, TLC

VARIABLES pc, img, img_key, req, border_bg, q, reordered, rgba, runs

vars == <<pc, img, img_key, req, border_bg, q, reordered, rgba, runs>>

-----------------------------------------------------------------------------
(* Arithmetic helpers *)

\* The function f with its values computed once (f itself, as a table).
Tab(f) == f @@ <<>>

Abs(x) == IF x < 0 THEN -x ELSE x

Max2(a, b) == IF a >= b THEN a ELSE b

Min2(a, b) == IF a <= b THEN a ELSE b

-----------------------------------------------------------------------------
(* Colours *)

White == <<255, 255, 255>>

NearWhite == <<250, 250, 250>>

Grey == <<200, 200, 200>>

Dark == <<145, 145, 145>>

Tint == <<255, 255, 145>>

Green == <<0, 255, 0>>

Blue == <<0, 0, 255>>

\* is_near_color with a strict comparison: the tolerance bound itself excluded.
is_near_color_strict_less(px_rgb, target_rgb, tol) ==
    /\ Abs(px_rgb[1] - target_rgb[1]) < tol
    /\ Abs(px_rgb[2] - target_rgb[2]) < tol
    /\ Abs(px_rgb[3] - target_rgb[3]) < tol

is_near_color(px_rgb, target_rgb, tol) ==
    /\ Abs(px_rgb[1] - target_rgb[1]) <= tol
    /\ Abs(px_rgb[2] - target_rgb[2]) <= tol
    /\ Abs(px_rgb[3] - target_rgb[3]) <= tol

-----------------------------------------------------------------------------
(* Grids *)

idx(x, y, w) == y * w + x

Cells(g) == 0 .. (g.w * g.h - 1)

XOf(i, w) == i % w

YOf(i, w) == i \div w

InGrid(x, y, w, h) == 0 <= x /\ x < w /\ 0 <= y /\ y < h

\* The 4-neighbour tuple without the downward neighbour.
Neigh4_no_down(x, y) == << <<x - 1, y>>, <<x + 1, y>>, <<x, y - 1>> >>

\* The tuple every neighbour loop of the code iterates, in the code's order.
Neigh4(x, y) == << <<x - 1, y>>, <<x + 1, y>>, <<x, y - 1>>, <<x, y + 1>> >>

ZeroMask(w, h) == Tab([i \in 0 .. (w * h - 1) |-> 0])

NoGrid == [w |-> 0, h |-> 0, px |-> <<>>]

-----------------------------------------------------------------------------
(* Border flood fill (lines 113-192) *)

\* q.append((x, y))
q_append(dq, p) == Append(dq, p)

\* try_seed / try_seed_strict on the state st = [mask, q].
try_seed(st, im, target_rgb, tol, x, y) ==
    LET i == idx(x, y, im.w) IN
    IF st.mask[i] = 0 /\ is_near_color(im.px[i], target_rgb, tol)
    THEN [mask |-> [st.mask EXCEPT ![i] = 1], q |-> q_append(st.q, <<x, y>>)]
    ELSE st

\* The border positions in the order the two seeding loops visit them.
BorderOrder(w, h) ==
    Tab([k \in 1 .. (2 * w + 2 * h) |->
        IF k <= 2 * w
        THEN <<(k - 1) \div 2, IF k % 2 = 1 THEN 0 ELSE h - 1>>
        ELSE <<IF (k - 2 * w) % 2 = 1 THEN 0 ELSE w - 1, (k - 2 * w - 1) \div 2>>])

\* The seeding calls from the k-th border position on.  (st.mask is read at every
\* step, so that st is computed step by step as the loops do; the mask of an
\* image with pixels is never empty.)
RECURSIVE SeedFrom(_, _, _, _, _, _)
SeedFrom(st, im, target_rgb, tol, order, k) ==
    IF k > Len(order) \/ DOMAIN st.mask = {} THEN st
    ELSE SeedFrom(try_seed(st, im, target_rgb, tol, order[k][1], order[k][2]),
                  im, target_rgb, tol, order, k + 1)

SeedBorder(im, target_rgb, tol) ==
    SeedFrom([mask |-> ZeroMask(im.w, im.h), q |-> <<>>], im, target_rgb, tol,
             BorderOrder(im.w, im.h), 1)

\* The body of "for nx, ny in (...)": examine the neighbours nb[k..] of a popped pixel.
RECURSIVE ExamineNeighbours(_, _, _, _, _, _)
ExamineNeighbours(st, im, target_rgb, tol, nb, k) ==
    IF k > Len(nb) THEN st
    ELSE LET nx == nb[k][1]
             ny == nb[k][2]
             i  == idx(nx, ny, im.w)
             st2 == IF InGrid(nx, ny, im.w, im.h)
                       /\ st.mask[i] = 0
                       /\ is_near_color(im.px[i], target_rgb, tol)
                    THEN [mask |-> [st.mask EXCEPT ![i] = 1],
                          q |-> q_append(st.q, <<nx, ny>>)]
                    ELSE st
         IN ExamineNeighbours(st2, im, target_rgb, tol, nb, k + 1)

\* Sequence s without its k-th element.
RemoveAt(s, k) == Tab([j \in 1 .. (Len(s) - 1) |-> IF j < k THEN s[j] ELSE s[j + 1]])

\* One iteration of "while q": take the k-th queued pixel (k = 1 is popleft) and
\* examine its four neighbours.
ExpandAt(st, im, target_rgb, tol, k) ==
    LET p == st.q[k]
    IN ExamineNeighbours([mask |-> st.mask, q |-> RemoveAt(st.q, k)],
                         im, target_rgb, tol, Neigh4(p[1], p[2]), 1)

\* Pixels taken from the queue so far: every flagged pixel was queued once.
Popped(st) == Cardinality({i \in DOMAIN st.mask : st.mask[i] = 1}) - Len(st.q)

\* The loop condition with a budget of one iteration.
WhileQ_budget(st) == st.q # <<>> /\ Popped(st) < 1

\* "while q:"
WhileQ(st) == st.q # <<>>

RECURSIVE ExpandFifo(_, _, _, _)
ExpandFifo(st, im, target_rgb, tol) ==
    IF ~WhileQ(st) THEN st.mask
    ELSE ExpandFifo(ExpandAt(st, im, target_rgb, tol, 1), im, target_rgb, tol)

floodfill_border_bg_mask_two_stage_1d(img_for_keying, target_rgb, tol_strict, tol_relaxed) ==
    ExpandFifo(SeedBorder(img_for_keying, target_rgb, tol_strict),
               img_for_keying, target_rgb, tol_relaxed)

floodfill_border_bg_mask_single_stage_1d(img_for_keying, target_rgb, tol) ==
    ExpandFifo(SeedBorder(img_for_keying, target_rgb, tol),
               img_for_keying, target_rgb, tol)

-----------------------------------------------------------------------------
(* Box blur as ImageFilter.BoxBlur / GaussianBlur apply it for a radius below 1:  *)
(* each output value is (centre * ww + (left + right) * fw + 2^23) >> 24 with the *)
(* line's ends replicated, all horizontal passes first, then all vertical passes. *)

\* The centre weight for the radius num/den and the weight of each neighbour.
BoxWW(num, den) == ((2 ^ 24) * den) \div (2 * num + den)

BoxFW(ww) == ((2 ^ 24) - ww) \div 2

\* (c * ww + (l + r) * fw + 2^23) >> 24, the weights split at bit 12 so that no
\* intermediate value leaves the 32-bit integers TLC computes with.
BlurValue(c, l, r, ww, fw) ==
    LET hi == c * (ww \div 4096) + (l + r) * (fw \div 4096) + 2048
        lo == c * (ww % 4096) + (l + r) * (fw % 4096)
    IN (hi + lo \div 4096) \div 4096

HBlur(ch, w, h, ww, fw) ==
    Tab([i \in 0 .. (w * h - 1) |->
        LET x == XOf(i, w)
            y == YOf(i, w)
        IN BlurValue(ch[i], ch[idx(Max2(x - 1, 0), y, w)],
                     ch[idx(Min2(x + 1, w - 1), y, w)], ww, fw)])

VBlur(ch, w, h, ww, fw) ==
    Tab([i \in 0 .. (w * h - 1) |->
        LET x == XOf(i, w)
            y == YOf(i, w)
        IN BlurValue(ch[i], ch[idx(x, Max2(y - 1, 0), w)],
                     ch[idx(x, Min2(y + 1, h - 1), w)], ww, fw)])

RECURSIVE HPasses(_, _, _, _, _, _)
HPasses(ch, w, h, ww, fw, n) ==
    IF n = 0 THEN ch ELSE HPasses(HBlur(ch, w, h, ww, fw), w, h, ww, fw, n - 1)

RECURSIVE VPasses(_, _, _, _, _, _)
VPasses(ch, w, h, ww, fw, n) ==
    IF n = 0 THEN ch ELSE VPasses(VBlur(ch, w, h, ww, fw), w, h, ww, fw, n - 1)

BoxBlurChannel(ch, w, h, ww, fw, n) ==
    VPasses(HPasses(ch, w, h, ww, fw, n), w, h, ww, fw, n)

Channel(g, c) == Tab([i \in Cells(g) |-> g.px[i][c]])

\* img.filter(ImageFilter.BoxBlur(0.6)) (line 450): radius 6/10, one pass.
KeyingView(im) ==
    LET ww == BoxWW(6, 10)
        fw == BoxFW(ww)
        r  == BoxBlurChannel(Channel(im, 1), im.w, im.h, ww, fw, 1)
        g  == BoxBlurChannel(Channel(im, 2), im.w, im.h, ww, fw, 1)
        b  == BoxBlurChannel(Channel(im, 3), im.w, im.h, ww, fw, 1)
    IN [w |-> im.w, h |-> im.h, px |-> Tab([i \in Cells(im) |-> <<r[i], g[i], b[i]>>])]

-----------------------------------------------------------------------------
(* Alpha compositing (lines 195-208) *)

SetAlpha(p, a) == <<p[1], p[2], p[3], a>>

\* The compositor taking its colours from the keying view.
apply_alpha_from_key_view(img_rgb, bg_mask_1d) ==
    LET k == KeyingView(img_rgb)
    IN [w |-> k.w, h |-> k.h,
        px |-> Tab([i \in Cells(k) |->
                  <<k.px[i][1], k.px[i][2], k.px[i][3],
                    IF bg_mask_1d[i] = 1 THEN 0 ELSE 255>>])]

apply_alpha_from_mask_1d(img_rgb, bg_mask_1d) ==
    [w |-> img_rgb.w, h |-> img_rgb.h,
     px |-> Tab([i \in Cells(img_rgb) |->
               LET p == <<img_rgb.px[i][1], img_rgb.px[i][2], img_rgb.px[i][3], 255>>
               IN IF bg_mask_1d[i] = 1 THEN SetAlpha(p, 0) ELSE p])]

-----------------------------------------------------------------------------
(* Enclosed-hole removal (lines 312-375) *)

\* The neighbour loop of the region search (lines 354-366) on st = [q, region, visited].
RECURSIVE RegionNeighbours(_, _, _, _, _, _, _)
RegionNeighbours(st, key, bmask, target_rgb, tol, nb, k) ==
    IF k > Len(nb) THEN st
    ELSE LET nx == nb[k][1]
             ny == nb[k][2]
             ii == idx(nx, ny, key.w)
             st2 == IF ~InGrid(nx, ny, key.w, key.h) THEN st
                    ELSE IF st.visited[ii] = 1 THEN st
                    ELSE LET v == [st EXCEPT !.visited[ii] = 1]
                         IN IF bmask[ii] = 1 THEN v
                            ELSE IF is_near_color(key.px[ii], target_rgb, tol)
                            THEN [v EXCEPT !.q = Append(@, <<nx, ny>>),
                                           !.region = Append(@, ii)]
                            ELSE v
         IN RegionNeighbours(st2, key, bmask, target_rgb, tol, nb, k + 1)

\* n iterations of "while q" (lines 352-366): popleft and the neighbour loop.
RECURSIVE RegionPops(_, _, _, _, _, _)
RegionPops(st, key, bmask, target_rgb, tol, n) ==
    IF n = 0 \/ st.q = <<>> THEN st
    ELSE LET p == Head(st.q)
         IN RegionPops(RegionNeighbours([st EXCEPT !.q = Tail(@)], key, bmask,
                                        target_rgb, tol, Neigh4(p[1], p[2]), 1),
                       key, bmask, target_rgb, tol, n - 1)

\* while q (lines 352-366), the pixels now queued popped in one go, then those
\* they queued, and so on: the order popleft takes them in.
RECURSIVE RegionBfs(_, _, _, _, _)
RegionBfs(st, key, bmask, target_rgb, tol) ==
    IF st.q = <<>> THEN st
    ELSE RegionBfs(RegionPops(st, key, bmask, target_rgb, tol, Len(st.q)),
                   key, bmask, target_rgb, tol)

\* for ii in region: alpha 0 (lines 369-373)
ClearRegion(px, region) ==
    Tab([i \in DOMAIN px |->
           IF \E k \in 1 .. Len(region) : region[k] = i
           THEN SetAlpha(px[i], 0) ELSE px[i]])

\* The region-size test with a strict comparison.
RegionIsLarge_strict(region, min_area) == Len(region) > min_area

\* len(region) >= min_area (line 368)
RegionIsLarge(region, min_area) == Len(region) >= min_area

\* The scan over every start pixel (lines 336-373) on hs = [visited, px], from
\* pixel i0 on: the scan passes over visited, border-flagged and non-background
\* pixels, marking them visited (lines 339-347), up to the next pixel s0 that
\* starts a region; the region is collected and, if large enough, cleared.
RECURSIVE HoleScan(_, _, _, _, _, _, _)
HoleScan(hs, i0, key, bmask, target_rgb, tol, min_area) ==
    LET starts == {j \in i0 .. (key.w * key.h - 1) :
                      /\ hs.visited[j] = 0
                      /\ bmask[j] = 0
                      /\ is_near_color(key.px[j], target_rgb, tol)}
    IN IF starts = {} THEN hs.px
       ELSE LET s0  == CHOOSE j \in starts : \A k \in starts : j <= k
                vis == Tab([j \in DOMAIN hs.visited |->
                              IF i0 <= j /\ j <= s0 THEN 1 ELSE hs.visited[j]])
                r   == RegionBfs([q |-> << <<XOf(s0, key.w), YOf(s0, key.w)>> >>,
                                  region |-> <<s0>>, visited |-> vis],
                                 key, bmask, target_rgb, tol)
                px2 == IF RegionIsLarge(r.region, min_area)
                       THEN ClearRegion(hs.px, r.region)
                       ELSE hs.px
            IN HoleScan([visited |-> r.visited, px |-> px2], s0 + 1, key,
                        bmask, target_rgb, tol, min_area)

remove_enclosed_holes_memory_safe(img_for_keying, rgba_in, border_bg_mask_1d, target_rgb, tol, min_area) ==
    LET m == IF min_area <= 0 THEN 1 ELSE min_area
    IN [w |-> rgba_in.w, h |-> rgba_in.h,
        px |-> HoleScan([visited |-> ZeroMask(img_for_keying.w, img_for_keying.h),
                         px |-> rgba_in.px],
                        0, img_for_keying, border_bg_mask_1d, target_rgb, tol, m)]

-----------------------------------------------------------------------------
(* Residual green cleanup, edge mask and dilation (lines 214-306) *)

\* target = (0, 255, 0) (lines 219 and 295)
CleanupTarget == <<0, 255, 0>>

Rgb(p) == <<p[1], p[2], p[3]>>

cleanup_residual_green_pixels(rgba_in, tol) ==
    [rgba_in EXCEPT !.px =
        Tab([i \in Cells(rgba_in) |->
            LET p == rgba_in.px[i]
            IN IF p[4] > 0 /\ is_near_color(Rgb(p), CleanupTarget, tol)
               THEN SetAlpha(p, 0) ELSE p])]

\* Some in-grid 4-neighbour of cell i is in the set S of cell indices.
SomeNeighbour(i, w, h, S) ==
    LET nb == Neigh4(XOf(i, w), YOf(i, w))
    IN \E k \in 1 .. Len(nb) :
         InGrid(nb[k][1], nb[k][2], w, h) /\ idx(nb[k][1], nb[k][2], w) \in S

build_alpha_edge_mask(rgba_in) ==
    LET clear == {j \in Cells(rgba_in) : rgba_in.px[j][4] = 0}
    IN Tab([i \in Cells(rgba_in) |->
           LET a == rgba_in.px[i][4]
           IN IF 0 < a /\ a < 255 THEN 1
              ELSE IF a > 0 /\ SomeNeighbour(i, rgba_in.w, rgba_in.h, clear) THEN 1
              ELSE 0])

\* The cells one round of dilation sets from the flagged cell i (lines 276-283).
DilateTargets(i, w, h) ==
    LET x == XOf(i, w)
        y == YOf(i, w)
    IN (IF x > 0 THEN {i - 1} ELSE {}) \cup (IF x < w - 1 THEN {i + 1} ELSE {})
       \cup (IF y > 0 THEN {i - w} ELSE {}) \cup (IF y < h - 1 THEN {i + w} ELSE {})

DilateOnce(cur, w, h) ==
    Tab([j \in DOMAIN cur |->
        IF cur[j] = 1 \/ \E i \in DOMAIN cur : cur[i] = 1 /\ j \in DilateTargets(i, w, h)
        THEN 1 ELSE 0])

\* A dilation that runs one round fewer than asked.
RECURSIVE dilate_mask_4n_one_less(_, _, _, _)
dilate_mask_4n_one_less(mask, w, h, iters) ==
    IF iters <= 1 THEN mask
    ELSE dilate_mask_4n_one_less(DilateOnce(mask, w, h), w, h, iters - 1)

RECURSIVE dilate_mask_4n(_, _, _, _)
dilate_mask_4n(mask, w, h, iters) ==
    IF iters <= 0 THEN mask
    ELSE dilate_mask_4n(DilateOnce(mask, w, h), w, h, iters - 1)

cleanup_residual_green_pixels_edge_only(rgba_in, tol, edge_mask) ==
    [rgba_in EXCEPT !.px =
        Tab([i \in Cells(rgba_in) |->
            LET p == rgba_in.px[i]
            IN IF edge_mask[i] = 1 /\ p[4] > 0 /\ is_near_color(Rgb(p), CleanupTarget, tol)
               THEN SetAlpha(p, 0) ELSE p])]

-----------------------------------------------------------------------------
(* Alpha erosion (lines 381-420) *)

\* One iteration with each mark applied at once, during the scan, from cell i on.
RECURSIVE ErodeScan_in_place(_, _, _, _)
ErodeScan_in_place(a, w, h, i) ==
    IF i >= w * h \/ DOMAIN a = {} THEN a
    ELSE ErodeScan_in_place(
             IF a[i] = 1 /\ SomeNeighbour(i, w, h, {j \in DOMAIN a : a[j] = 0})
             THEN [a EXCEPT ![i] = 0] ELSE a,
             w, h, i + 1)

ErodeOnce_in_place(a, w, h) == ErodeScan_in_place(a, w, h, 0)

\* One iteration: every set cell with a cleared in-grid neighbour is cleared, all
\* marks applied after the scan (lines 399-409).
ErodeOnce(a, w, h) ==
    LET cleared == {j \in DOMAIN a : a[j] = 0}
    IN Tab([i \in DOMAIN a |->
           IF a[i] = 1 /\ SomeNeighbour(i, w, h, cleared) THEN 0 ELSE a[i]])

RECURSIVE ErodeTimes(_, _, _, _)
ErodeTimes(a, w, h, n) ==
    IF n = 0 THEN a ELSE ErodeTimes(ErodeOnce(a, w, h), w, h, n - 1)

\* An erosion that writes the eroded alpha back for erode_px = 0 as well.
erode_alpha_always_binarise(rgba_in, erode_px) ==
    LET a0 == Tab([i \in Cells(rgba_in) |-> IF rgba_in.px[i][4] > 0 THEN 1 ELSE 0])
        a  == ErodeTimes(a0, rgba_in.w, rgba_in.h, Max2(erode_px, 0))
    IN [rgba_in EXCEPT !.px =
           Tab([i \in Cells(rgba_in) |->
               SetAlpha(rgba_in.px[i], IF a[i] = 1 THEN 255 ELSE 0)])]

erode_alpha(rgba_in, erode_px) ==
    IF erode_px <= 0 THEN rgba_in
    ELSE LET a0 == Tab([i \in Cells(rgba_in) |-> IF rgba_in.px[i][4] > 0 THEN 1 ELSE 0])
             a  == ErodeTimes(a0, rgba_in.w, rgba_in.h, erode_px)
         IN [rgba_in EXCEPT !.px =
                Tab([i \in Cells(rgba_in) |->
                    SetAlpha(rgba_in.px[i], IF a[i] = 1 THEN 255 ELSE 0)])]

-----------------------------------------------------------------------------
(* Edge softening (lines 426-435) *)

\* edge_soften_alpha for the radius tenths/10.  GaussianBlur(1.2) is three box-blur
\* passes of radius 6/13 (sigma^2 = 1.44/3, box length sqrt(12 sigma^2 + 1) = 2.6,
\* integer part 0, fractional part 1.44/3.12); only the alpha channel is blurred.
edge_soften_alpha(rgba_in, tenths) ==
    IF tenths <= 0 THEN rgba_in
    ELSE LET ww == BoxWW(6, 13)
             fw == BoxFW(ww)
             a  == BoxBlurChannel(Channel(rgba_in, 4), rgba_in.w, rgba_in.h, ww, fw, 3)
         IN [rgba_in EXCEPT !.px =
                Tab([i \in Cells(rgba_in) |-> SetAlpha(rgba_in.px[i], a[i])])]

-----------------------------------------------------------------------------
(* Inputs of the flood-fill runs *)

\* Most pixels (w * h) of a grid handed to the flood fill.
FloodCells == 9

\* Most background-like (White or Grey) pixels of such a grid; the rest is Tint.
FloodBg == 3

\* color_tolerance default (line 66) and strict_tolerance default (line 70).
DefaultTolerance == 90

DefaultStrict == 35

\* The subsets of S of at most k elements.
RECURSIVE SmallSubsets(_, _)
SmallSubsets(S, k) ==
    IF k <= 0 THEN {{}}
    ELSE LET P == SmallSubsets(S, k - 1)
         IN P \cup {D \cup {x} : D \in P, x \in S}

\* The w x h grids of colour fill with at most k pixels of the colours in others.
GridsOver(w, h, fill, others, k) ==
    {[w |-> w, h |-> h,
      px |-> Tab([i \in 0 .. (w * h - 1) |-> IF i \in Dc[1] THEN Dc[2][i] ELSE fill])] :
        Dc \in UNION {{<<D0, c0>> : c0 \in [D0 -> others]} :
                      D0 \in SmallSubsets(0 .. (w * h - 1), k)}}

ShapesUpTo(cells) ==
    {wh \in (1 .. cells) \X (1 .. cells) : wh[1] * wh[2] <= cells}

FloodGrids ==
    UNION {GridsOver(wh[1], wh[2], Tint, {White, Grey}, FloodBg) :
           wh \in ShapesUpTo(FloodCells)}

FloodReqs ==
    [target_rgb : {White}, two_stage : BOOLEAN,
     tol_strict : {DefaultStrict}, tol_relaxed : {DefaultTolerance}]

SeedTol(r) == IF r.two_stage THEN r.tol_strict ELSE r.tol_relaxed

FloodInit ==
    /\ pc = "seed"
    /\ img = NoGrid
    /\ img_key \in FloodGrids
    /\ req \in FloodReqs
    /\ border_bg = ZeroMask(img_key.w, img_key.h)
    /\ q = <<>>
    /\ reordered = FALSE
    /\ rgba = NoGrid
    /\ runs = <<>>

\* The two seeding loops (lines 135-140 and 176-181).
FloodSeed ==
    /\ pc = "seed"
    /\ LET st == SeedBorder(img_key, req.target_rgb, SeedTol(req))
       IN /\ border_bg' = st.mask
          /\ q' = st.q
    /\ pc' = "expand"
    /\ UNCHANGED <<img, img_key, req, reordered, rgba, runs>>

\* One iteration of the while loop (lines 144-151 and 183-190); the code takes the
\* leftmost queued pixel, here any queued pixel may be taken; reordered records
\* that some pixel was taken out of the code's order.  The order of the border
\* loops and of the neighbour tuple decides only where a pixel stands in the
\* queue (which pixels are flagged and queued by a step does not depend on it),
\* so taking any queued pixel covers those orders as well.
FloodPop ==
    /\ pc = "expand"
    /\ WhileQ([mask |-> border_bg, q |-> q])
    /\ \E k \in 1 .. Len(q) :
         LET st == ExpandAt([mask |-> border_bg, q |-> q], img_key,
                            req.target_rgb, req.tol_relaxed, k)
         IN /\ border_bg' = st.mask
            /\ q' = st.q
            /\ reordered' = (reordered \/ k > 1)
    /\ UNCHANGED <<pc, img, img_key, req, rgba, runs>>

\* return mask (lines 153 and 192).
FloodReturn ==
    /\ pc = "expand"
    /\ ~WhileQ([mask |-> border_bg, q |-> q])
    /\ pc' = "filled"
    /\ UNCHANGED <<img, img_key, req, border_bg, q, reordered, rgba, runs>>

FloodNext == FloodSeed \/ FloodPop \/ FloodReturn

SpecFlood == FloodInit /\ [][FloodNext]_vars

-----------------------------------------------------------------------------
(* Properties of the flood fill *)

\* The mask the code's own order (border loops as written, popleft, neighbours
\* left-right-up-down) returns for the run's input.
FifoMask ==
    IF req.two_stage
    THEN floodfill_border_bg_mask_two_stage_1d(img_key, req.target_rgb,
                                               req.tol_strict, req.tol_relaxed)
    ELSE floodfill_border_bg_mask_single_stage_1d(img_key, req.target_rgb,
                                                  req.tol_relaxed)

\* C1: whatever order the queued pixels are taken in, a single-stage or two-stage
\* flood fill ends with the mask the code's first-in-first-out order ends with, so
\* any two runs on the same input end with identical masks.
C1_MaskIndependentOfOrder == pc = "filled" => border_bg = FifoMask

\* C1 witness: a finished two-stage run that took a pixel out of first-in-first-out
\* order and flagged a pixel that was not seeded.
C1_Witness ==
    /\ pc = "filled"
    /\ reordered
    /\ req.two_stage
    /\ \E i \in Cells(img_key) :
         /\ border_bg[i] = 1
         /\ ~is_near_color(img_key.px[i], req.target_rgb, req.tol_strict)

OnBoundary(i, g) ==
    \/ XOf(i, g.w) = 0 \/ XOf(i, g.w) = g.w - 1
    \/ YOf(i, g.w) = 0 \/ YOf(i, g.w) = g.h - 1

Adjacent(i, j, w) == Abs(XOf(i, w) - XOf(j, w)) + Abs(YOf(i, w) - YOf(j, w)) = 1

\* The cells of M joined to a cell of S by a 4-connected chain of cells of M.
RECURSIVE ChainClosure(_, _, _)
ChainClosure(S, M, w) ==
    LET S2 == S \cup {j \in M : \E i \in S : Adjacent(i, j, w)}
    IN IF S2 = S THEN S ELSE ChainClosure(S2, M, w)

MatchingCells(g, target_rgb, tol) ==
    {i \in Cells(g) : is_near_color(g.px[i], target_rgb, tol)}

BorderConnected(g, target_rgb, tol) ==
    LET M == MatchingCells(g, target_rgb, tol)
    IN ChainClosure({i \in M : OnBoundary(i, g)}, M, g.w)

\* C2: the single-stage flood fill flags exactly the pixels that match within tol
\* and are joined to a matching boundary pixel by a 4-connected chain of matching
\* pixels.
C2_SingleStageIsBorderConnectedSet ==
    (pc = "filled" /\ ~req.two_stage) =>
        \A i \in Cells(img_key) :
            border_bg[i] = 1 <=>
                i \in BorderConnected(img_key, req.target_rgb, req.tol_relaxed)

\* C2 witness: a finished single-stage run that flagged an interior pixel and left
\* a non-matching pixel unflagged.
C2_Witness ==
    /\ pc = "filled"
    /\ ~req.two_stage
    /\ \E i \in Cells(img_key) : border_bg[i] = 1 /\ ~OnBoundary(i, img_key)
    /\ \E i \in Cells(img_key) : border_bg[i] = 0

-----------------------------------------------------------------------------
(* The pipeline, process_remove_bg (lines 441-514), one action per stage.          *)
(* req holds the request: target_rgb (bg_hex after hex_to_rgb), color_tolerance,  *)
(* strict_tolerance and two_stage are drawn at the start, the fields of a later   *)
(* stage when that stage reads them (until then they hold FALSE or 0).            *)
(* edge_soften_px is held in tenths, the percentages as whole numbers.            *)

\* Most pixels (w * h) of an artwork grid.
PipeCells == 9

\* Largest erode_px requested.
MaxErode == 1

\* cleanup_green_percent and cleanup_edge_expand_percent defaults (lines 90, 103).
DefaultCleanupPercent == 15

\* edge_soften_px default 1.2 (line 80), in tenths.
DefaultSoftenTenths == 12

\* The floor and the margin of the strict-tolerance clamp (line 460).
StrictFloor == 10

StrictMargin == 30

Palette == {White, NearWhite, Grey, Dark, Green}

\* Grids of one colour.
UniformGrids ==
    UNION {GridsOver(wh[1], wh[2], c, {}, 0) :
           <<wh, c>> \in ShapesUpTo(PipeCells) \X Palette}

\* Grids of one colour but for one pixel.
OneOddGrids ==
    UNION {GridsOver(wh[1], wh[2], c, {White, Grey, Dark, Green} \ {c}, 1) :
           <<wh, c>> \in ShapesUpTo(PipeCells) \X {White, Grey, Dark, Green}}

\* The 4 x 4 white grid with a centred 2 x 2 blue block.
BlockGrid ==
    [w |-> 4, h |-> 4,
     px |-> Tab([i \in 0 .. 15 |->
               IF XOf(i, 4) \in {1, 2} /\ YOf(i, 4) \in {1, 2} THEN Blue ELSE White])]

StartReq(t, tol, strict, two) ==
    [target_rgb |-> t, color_tolerance |-> tol, strict_tolerance |-> strict,
     two_stage |-> two,
     remove_holes |-> FALSE, min_hole_area |-> 0,
     cleanup_residual_green |-> FALSE, cleanup_green_percent |-> 0,
     cleanup_green_edge_only |-> FALSE, cleanup_edge_expand_percent |-> 0,
     erode_px |-> 0, edge_soften |-> FALSE, edge_soften_px |-> 0]

\* The runs' <<artwork, target colour, color_tolerance>>: one-colour artwork keyed
\* on white and on green with tolerance 0 and the default, artwork with one odd
\* pixel keyed on white with the default, the blue block keyed on white with
\* tolerance 10.
PipeInputs ==
    (UniformGrids \X {White, Green} \X {0, DefaultTolerance})
    \cup (OneOddGrids \X {White} \X {DefaultTolerance})
    \cup ({BlockGrid} \X {White} \X {10})

Init ==
    /\ pc = "start"
    /\ \E in \in PipeInputs, two \in BOOLEAN :
         /\ img = in[1]
         /\ req = StartReq(in[2], in[3], DefaultStrict, two)
    /\ img_key = NoGrid
    /\ border_bg = <<>>
    /\ q = <<>>
    /\ reordered = FALSE
    /\ rgba = NoGrid
    /\ runs = <<>>

\* The strict tolerance handed to the two-stage flood fill (lines 456-460).
StrictPassed(r) ==
    IF r.strict_tolerance >= r.color_tolerance
    THEN Max2(StrictFloor, r.color_tolerance - StrictMargin)
    ELSE r.strict_tolerance

\* line 450
KeyStage ==
    /\ pc = "start"
    /\ img_key' = KeyingView(img)
    /\ pc' = "keyed"
    /\ UNCHANGED <<img, req, border_bg, q, reordered, rgba, runs>>

\* lines 457-473
ScanStage ==
    /\ pc = "keyed"
    /\ border_bg' =
         IF req.two_stage
         THEN floodfill_border_bg_mask_two_stage_1d(img_key, req.target_rgb,
                                                    StrictPassed(req), req.color_tolerance)
         ELSE floodfill_border_bg_mask_single_stage_1d(img_key, req.target_rgb,
                                                       req.color_tolerance)
    /\ pc' = "scanned"
    /\ UNCHANGED <<img, img_key, req, q, reordered, rgba, runs>>

\* line 475
CompositeStage ==
    /\ pc = "scanned"
    /\ rgba' = apply_alpha_from_mask_1d(img, border_bg)
    /\ pc' = "composited"
    /\ UNCHANGED <<img, img_key, req, border_bg, q, reordered, runs>>

\* lines 478-486
HolesStage ==
    /\ pc = "composited"
    /\ \E on \in BOOLEAN, area \in {0, 1, 2} :
         /\ (~on => area = 0)
         /\ req' = [req EXCEPT !.remove_holes = on, !.min_hole_area = area]
         /\ rgba' = IF on
                    THEN remove_enclosed_holes_memory_safe(img_key, rgba, border_bg,
                             req.target_rgb, req.color_tolerance, area)
                    ELSE rgba
    /\ pc' = "holed"
    /\ UNCHANGED <<img, img_key, border_bg, q, reordered, runs>>

\* green_tol (line 490)
GreenTol(r) == (r.color_tolerance * (100 + r.cleanup_green_percent)) \div 100

\* expand_px (line 498)
ExpandPx(r) == r.cleanup_edge_expand_percent \div 10

\* lines 489-503
CleanupStage ==
    /\ pc = "holed"
    /\ \E on \in BOOLEAN, edge \in BOOLEAN, expand \in {0, DefaultCleanupPercent} :
         /\ (~on => ~edge)
         /\ (~edge => expand = 0)
         /\ LET r == [req EXCEPT !.cleanup_residual_green = on,
                                 !.cleanup_green_percent =
                                     IF on THEN DefaultCleanupPercent ELSE 0,
                                 !.cleanup_green_edge_only = edge,
                                 !.cleanup_edge_expand_percent = expand]
            IN /\ req' = r
               /\ rgba' =
                    IF ~on THEN rgba
                    ELSE IF edge
                    THEN cleanup_residual_green_pixels_edge_only(rgba, GreenTol(r),
                             dilate_mask_4n(build_alpha_edge_mask(rgba), rgba.w, rgba.h,
                                            ExpandPx(r)))
                    ELSE cleanup_residual_green_pixels(rgba, GreenTol(r))
    /\ pc' = "cleaned"
    /\ UNCHANGED <<img, img_key, border_bg, q, reordered, runs>>

\* line 506
ErodeStage ==
    /\ pc = "cleaned"
    /\ \E e \in 0 .. MaxErode :
         /\ req' = [req EXCEPT !.erode_px = e]
         /\ rgba' = erode_alpha(rgba, e)
    /\ pc' = "eroded"
    /\ UNCHANGED <<img, img_key, border_bg, q, reordered, runs>>

\* lines 509-510; the grid then goes to the PNG encoder (lines 512-514).
SoftenStage ==
    /\ pc = "eroded"
    /\ \E on \in BOOLEAN :
         /\ req' = [req EXCEPT !.edge_soften = on,
                               !.edge_soften_px = IF on THEN DefaultSoftenTenths ELSE 0]
         /\ rgba' = IF on THEN edge_soften_alpha(rgba, DefaultSoftenTenths) ELSE rgba
    /\ pc' = "done"
    /\ UNCHANGED <<img, img_key, border_bg, q, reordered, runs>>

Next ==
    \/ KeyStage \/ ScanStage \/ CompositeStage \/ HolesStage
    \/ CleanupStage \/ ErodeStage \/ SoftenStage

Spec == Init /\ [][Next]_vars

-----------------------------------------------------------------------------
(* Properties of the pipeline *)

Composited == pc \in {"composited", "holed", "cleaned", "eroded", "done"}

Uniform(g) == \A i \in Cells(g) : g.px[i] = g.px[0]

Alpha(g, i) == g.px[i][4]

\* The cells whose alpha the hole-removal stage set to 0: compositing gave them
\* alpha 255 (they are not in the border mask) and the stage left them alpha 0.
ClearedByHoles ==
    {i \in Cells(rgba) : border_bg[i] = 0 /\ Alpha(rgba, i) = 0}

\* The maximal 4-connected region of background-coloured pixels (keying view,
\* relaxed tolerance) around cell i.
BgRegion(i) ==
    ChainClosure({i}, MatchingCells(img_key, req.target_rgb, req.color_tolerance),
                 img_key.w)

\* C3: every pixel whose alpha the hole-removal stage sets to 0 lies in a
\* 4-connected region of background-coloured pixels that holds no pixel of the
\* grid boundary and has at least min_area pixels; a region holding a boundary
\* pixel is never cleared.
C3_HolesClearOnlyEnclosedLargeRegions ==
    pc = "holed" =>
        \A i \in ClearedByHoles :
            /\ is_near_color(img_key.px[i], req.target_rgb, req.color_tolerance)
            /\ \A j \in BgRegion(i) : ~OnBoundary(j, img_key)
            /\ Cardinality(BgRegion(i)) >= req.min_hole_area

\* C3, the enclosed case: the hole-removal stage did clear a region that holds no
\* boundary pixel.
C3_EnclosedRegionCleared ==
    /\ pc = "holed"
    /\ \E i \in ClearedByHoles : \A j \in BgRegion(i) : ~OnBoundary(j, img_key)

\* C4: a one-colour image whose colour is not within the tolerance of the target
\* colour comes out with alpha 255 at every pixel, whatever the optional stages
\* are set to.
C4_UniformForegroundStaysOpaque ==
    (/\ pc = "done"
     /\ Uniform(img)
     /\ ~is_near_color(img.px[0], req.target_rgb, req.color_tolerance))
        => \A i \in Cells(rgba) : Alpha(rgba, i) = 255

\* C4, the case that does hold: such an image run single-stage with the residual
\* cleanup off comes out fully opaque.
C4_SingleStageNoCleanupOpaque ==
    /\ pc = "done"
    /\ Uniform(img)
    /\ ~is_near_color(img.px[0], req.target_rgb, req.color_tolerance)
    /\ ~req.two_stage /\ ~req.cleanup_residual_green
    /\ req.remove_holes /\ req.erode_px > 0
    /\ \A i \in Cells(rgba) : Alpha(rgba, i) = 255

\* C5: a one-colour image of exactly the target colour comes out with alpha 0 at
\* every pixel, for every tolerance, in single-stage and two-stage mode and for
\* every setting of the optional stages.
C5_UniformTargetIsCleared ==
    (pc = "done" /\ Uniform(img) /\ img.px[0] = req.target_rgb)
        => \A i \in Cells(rgba) : Alpha(rgba, i) = 0

\* C5 witness: a finished two-stage run with tolerance 0 on a 3 x 3 image of the
\* target colour, all of it transparent, the interior pixel included.
C5_Witness ==
    /\ pc = "done"
    /\ Uniform(img) /\ img.px[0] = req.target_rgb
    /\ img.w = 3 /\ img.h = 3
    /\ req.two_stage /\ req.color_tolerance = 0
    /\ \A i \in Cells(rgba) : Alpha(rgba, i) = 0

\* C6: the 4 x 4 white grid with the centred 2 x 2 blue block, keyed on white with
\* tolerance 10 and erode_px 0, comes out with alpha 0 at the 12 white pixels and
\* as opaque blue at the 4 centre pixels.
C6_BlueBlockOnWhite ==
    (/\ pc = "done"
     /\ img = BlockGrid
     /\ req.target_rgb = White /\ req.color_tolerance = 10 /\ req.erode_px = 0)
        => \A i \in Cells(rgba) :
               IF img.px[i] = White
               THEN Alpha(rgba, i) = 0
               ELSE rgba.px[i] = <<0, 0, 255, 255>>

\* C10: from compositing on, the red, green and blue of every pixel of the RGBA
\* grid are those of the same pixel of the artwork, whatever its alpha; so they
\* are in the output.
C10_OutputColoursAreArtwork ==
    Composited =>
        /\ rgba.w = img.w /\ rgba.h = img.h
        /\ \A i \in Cells(img) : Rgb(rgba.px[i]) = img.px[i]

\* C10 witness: a finished run with softening on whose keying view differs from
\* the artwork at a pixel that came out transparent and at one that came out
\* opaque or partly transparent.
C10_Witness ==
    /\ pc = "done"
    /\ req.edge_soften
    /\ \E i \in Cells(img) : img_key.px[i] # img.px[i] /\ Alpha(rgba, i) = 0
    /\ \E i \in Cells(img) : img_key.px[i] # img.px[i] /\ Alpha(rgba, i) > 0

-----------------------------------------------------------------------------
(* remove_enclosed_holes_memory_safe on its own (lines 312-375): the keying image *)
(* is drawn directly, the border mask is the one a flood fill returns for it, and *)
(* the RGBA grid is the keying image composited with that mask.                   *)

\* Most pixels (w * h) of a keying image drawn for hole removal.
HoleCells == 12

\* Most background-like (White or Grey) pixels of such an image; the rest is Dark.
\* min_area runs from 0 to this number.
HoleBg == 2

\* The 12 x 12 image of a 10 x 10 white block inside a one-pixel dark ring.
RingGrid ==
    [w |-> 12, h |-> 12,
     px |-> Tab([i \in 0 .. 143 |->
               IF XOf(i, 12) \in 1 .. 10 /\ YOf(i, 12) \in 1 .. 10 THEN White ELSE Dark])]

\* The shapes with an interior: at least 3 pixels each way.
HoleShapes == {wh \in ShapesUpTo(HoleCells) : wh[1] >= 3 /\ wh[2] >= 3}

HoleGrids ==
    UNION {GridsOver(wh[1], wh[2], Dark, {White, Grey}, HoleBg) : wh \in HoleShapes}

\* <<keying image, min_area>>
HoleInputs == (HoleGrids \X (0 .. HoleBg)) \cup ({RingGrid} \X {50, 200})

HolesInit ==
    /\ pc = "holes_start"
    /\ \E in \in HoleInputs, two \in BOOLEAN :
         /\ img = in[1]
         /\ img_key = in[1]
         /\ req = [StartReq(White, DefaultTolerance, DefaultStrict, two)
                       EXCEPT !.remove_holes = TRUE, !.min_hole_area = in[2]]
    /\ border_bg = <<>>
    /\ q = <<>>
    /\ reordered = FALSE
    /\ rgba = NoGrid
    /\ runs = <<>>

\* The arguments as process_remove_bg builds them (lines 462-475).
HolesPrepare ==
    /\ pc = "holes_start"
    /\ LET m == IF req.two_stage
                THEN floodfill_border_bg_mask_two_stage_1d(img_key, req.target_rgb,
                         StrictPassed(req), req.color_tolerance)
                ELSE floodfill_border_bg_mask_single_stage_1d(img_key, req.target_rgb,
                         req.color_tolerance)
       IN /\ border_bg' = m
          /\ rgba' = apply_alpha_from_mask_1d(img, m)
    /\ pc' = "holes_ready"
    /\ UNCHANGED <<img, img_key, req, q, reordered, runs>>

\* The call (lines 479-486).
HolesCall ==
    /\ pc = "holes_ready"
    /\ rgba' = remove_enclosed_holes_memory_safe(img_key, rgba, border_bg,
                   req.target_rgb, req.color_tolerance, req.min_hole_area)
    /\ pc' = "holes_done"
    /\ UNCHANGED <<img, img_key, req, border_bg, q, reordered, runs>>

HolesNext == HolesPrepare \/ HolesCall

SpecHoles == HolesInit /\ [][HolesNext]_vars

\* The maximal 4-connected regions of background-coloured pixels that hold no
\* pixel of the grid boundary (so none of them is border-connected).
EnclosedRegions ==
    {R \in {BgRegion(i) : i \in MatchingCells(img_key, req.target_rgb,
                                              req.color_tolerance)} :
        \A j \in R : ~OnBoundary(j, img_key)}

\* The min_area the function works with (lines 320-321).
EffectiveMinArea == IF req.min_hole_area <= 0 THEN 1 ELSE req.min_hole_area

\* C7: hole removal clears every pixel of an enclosed region of at least min_area
\* pixels and no pixel of a smaller one; the 10 x 10 block inside the one-pixel
\* ring comes out all transparent with min_area 50 and all opaque with 200.
C7_EnclosedRegionClearedIffLarge ==
    pc = "holes_done" =>
        /\ \A R \in EnclosedRegions :
              IF Cardinality(R) >= EffectiveMinArea
              THEN \A i \in R : Alpha(rgba, i) = 0
              ELSE \A i \in R : Alpha(rgba, i) = 255
        /\ img_key = RingGrid =>
              \A i \in Cells(rgba) :
                  Alpha(rgba, i) = IF req.min_hole_area = 50 /\ img_key.px[i] = White
                                   THEN 0 ELSE 255

\* C7 witness: the ring image after hole removal with min_area 50, its 100 block
\* pixels transparent.
C7_Witness ==
    /\ pc = "holes_done"
    /\ img_key = RingGrid
    /\ req.min_hole_area = 50
    /\ Cardinality({i \in Cells(rgba) : Alpha(rgba, i) = 0}) = 100

-----------------------------------------------------------------------------
(* erode_alpha on its own (lines 381-420): the same RGBA grid eroded with        *)
(* erode_px = 0, 1, 2, ...; runs[k + 1] is the grid returned for erode_px = k.    *)

\* Most pixels (w * h) of a grid drawn for erosion.
ErodeCells == 9

\* Most pixels of such a grid that are not opaque (alpha 0 or 128).
ErodeOdd == 3

\* Largest erode_px of a sequence of erosions.
ErodeMost == 3

ErodeGrids ==
    UNION {GridsOver(wh[1], wh[2], SetAlpha(Dark, 255),
                     {SetAlpha(Dark, 0), SetAlpha(Dark, 128)}, ErodeOdd) :
           wh \in ShapesUpTo(ErodeCells)}

\* Every grid of those shapes whose alpha is 0 or 255 everywhere.
ErodeBinaryGrids ==
    UNION {GridsOver(wh[1], wh[2], SetAlpha(Dark, 255), {SetAlpha(Dark, 0)},
                     wh[1] * wh[2]) :
           wh \in ShapesUpTo(ErodeCells)}

ErodeInit ==
    /\ pc = "erode"
    /\ img = NoGrid
    /\ img_key = NoGrid
    /\ req = StartReq(White, DefaultTolerance, DefaultStrict, TRUE)
    /\ border_bg = <<>>
    /\ q = <<>>
    /\ reordered = FALSE
    /\ rgba \in ErodeGrids \cup ErodeBinaryGrids
    /\ runs = <<>>

\* rgba = erode_alpha(rgba, req.erode_px) (line 506) for the next erode_px.
ErodeCall ==
    /\ pc = "erode"
    /\ Len(runs) <= ErodeMost
    /\ req' = [req EXCEPT !.erode_px = Len(runs)]
    /\ runs' = Append(runs, erode_alpha(rgba, Len(runs)))
    /\ UNCHANGED <<pc, img, img_key, border_bg, q, reordered, rgba>>

ErodeNext == ErodeCall

SpecErode == ErodeInit /\ [][ErodeNext]_vars

\* The number of pixels of g that are not fully transparent.
VisibleCount(g) == Cardinality({i \in Cells(g) : Alpha(g, i) > 0})

-----------------------------------------------------------------------------
(* dilate_mask_4n on its own (lines 260-287): the mask border_bg of the grid     *)
(* img.w x img.h dilated with iters = 0, 1, 2, ...; runs[k + 1] is the mask       *)
(* returned for iters = k.                                                        *)

\* Longest side of a grid drawn for dilation.
DilateSide == 5

\* Most flagged pixels of a mask drawn for dilation.
DilateFlagged == 2

\* Largest iters of a sequence of dilations.
DilateMost == 2

DilateMasks(w, h) ==
    {Tab([i \in 0 .. (w * h - 1) |-> IF i \in F THEN 1 ELSE 0]) :
        F \in SmallSubsets(0 .. (w * h - 1), DilateFlagged)}

DilateInit ==
    /\ pc = "dilate"
    /\ \E w \in 1 .. DilateSide, h \in 1 .. DilateSide :
         /\ img = [w |-> w, h |-> h, px |-> <<>>]
         /\ border_bg \in DilateMasks(w, h)
    /\ img_key = NoGrid
    /\ req = StartReq(White, DefaultTolerance, DefaultStrict, TRUE)
    /\ q = <<>>
    /\ reordered = FALSE
    /\ rgba = NoGrid
    /\ runs = <<>>

\* edge_mask = dilate_mask_4n(edge_mask, w, h, expand_px) (line 499) for the next
\* number of iterations.
DilateCall ==
    /\ pc = "dilate"
    /\ Len(runs) <= DilateMost
    /\ runs' = Append(runs, dilate_mask_4n(border_bg, img.w, img.h, Len(runs)))
    /\ UNCHANGED <<pc, img, img_key, req, border_bg, q, reordered, rgba>>

DilateNext == DilateCall

SpecDilate == DilateInit /\ [][DilateNext]_vars

Flagged(m) == {i \in DOMAIN m : m[i] = 1}

Manhattan(i, j, w) == Abs(XOf(i, w) - XOf(j, w)) + Abs(YOf(i, w) - YOf(j, w))

\* Cell i is at least d pixels away from every side of the grid.
Inside(i, d) ==
    /\ XOf(i, img.w) >= d /\ XOf(i, img.w) <= img.w - 1 - d
    /\ YOf(i, img.w) >= d /\ YOf(i, img.w) <= img.h - 1 - d

\* C9 as stated: two iterations from one flagged pixel with nothing clipped give
\* exactly the 5 pixels of the plus around it.
C9_TwoIterationsGivePlus ==
    \A p \in DOMAIN border_bg :
        (Len(runs) >= 3 /\ Flagged(border_bg) = {p} /\ Inside(p, 2)) =>
            /\ Cardinality(Flagged(runs[3])) = 5
            /\ Flagged(runs[3]) = {j \in DOMAIN border_bg : Manhattan(p, j, img.w) <= 1}

\* C9 amended: iters iterations flag exactly the pixels within Manhattan distance
\* iters of a flagged pixel; from one flagged pixel with nothing clipped, one
\* iteration gives the 5-pixel plus and two iterations give the 13 pixels within
\* Manhattan distance 2.
C9_IterationsGiveManhattanBall ==
    /\ \A k \in 1 .. Len(runs) :
          Flagged(runs[k]) =
              {j \in DOMAIN border_bg :
                  \E i \in Flagged(border_bg) : Manhattan(i, j, img.w) <= k - 1}
    /\ \A p \in DOMAIN border_bg :
          Flagged(border_bg) = {p} =>
              /\ (Len(runs) >= 2 /\ Inside(p, 1)) => Cardinality(Flagged(runs[2])) = 5
              /\ (Len(runs) >= 3 /\ Inside(p, 2)) => Cardinality(Flagged(runs[3])) = 13

\* C9 witness: two iterations from the one flagged pixel in the middle of a grid
\* at least 5 x 5, 13 pixels flagged.
C9_Witness ==
    /\ Len(runs) >= 3
    /\ \E p \in DOMAIN border_bg :
         /\ Flagged(border_bg) = {p}
         /\ Inside(p, 2)
         /\ Cardinality(Flagged(runs[3])) = 13

-----------------------------------------------------------------------------
(* Properties of the residual cleanup stage (lines 488-503) in the pipeline *)

\* The RGBA grid the cleanup stage received: the composite, after hole removal
\* when that is on (lines 475-486).
BeforeCleanup ==
    LET c == apply_alpha_from_mask_1d(img, border_bg)
    IN IF req.remove_holes
       THEN remove_enclosed_holes_memory_safe(img_key, c, border_bg, req.target_rgb,
                                              req.color_tolerance, req.min_hole_area)
       ELSE c

\* The cells the cleanup may act on: every cell, or in edge-only mode the dilated
\* edge mask of the grid it received (lines 492-499).
CleanupScope ==
    IF req.cleanup_green_edge_only
    THEN Flagged(dilate_mask_4n(build_alpha_edge_mask(BeforeCleanup),
                                rgba.w, rgba.h, ExpandPx(req)))
    ELSE Cells(rgba)

\* C11: with the residual cleanup on, the cleanup stage sets alpha to 0 at exactly
\* the pixels in its scope that have alpha > 0 and whose colour is within the
\* boosted tolerance of the configured target colour, whatever that colour is; a
\* pixel whose colour is not within it is never cleared by the cleanup.
C11_CleanupUsesConfiguredTarget ==
    (pc = "cleaned" /\ req.cleanup_residual_green) =>
        \A i \in Cells(rgba) :
            (Alpha(BeforeCleanup, i) > 0 /\ Alpha(rgba, i) = 0)
                <=> (/\ i \in CleanupScope
                     /\ Alpha(BeforeCleanup, i) > 0
                     /\ is_near_color(Rgb(rgba.px[i]), req.target_rgb, GreenTol(req)))

\* C11, what the stage does: the same with the colour (0, 255, 0) in place of the
\* configured target colour.
C11_CleanupUsesGreen ==
    (pc = "cleaned" /\ req.cleanup_residual_green) =>
        \A i \in Cells(rgba) :
            (Alpha(BeforeCleanup, i) > 0 /\ Alpha(rgba, i) = 0)
                <=> (/\ i \in CleanupScope
                     /\ Alpha(BeforeCleanup, i) > 0
                     /\ is_near_color(Rgb(rgba.px[i]), Green, GreenTol(req)))

\* C11, a run where the two differ: white is the configured target, the cleanup
\* is on for the whole image, and it cleared a pixel that is not within the
\* boosted tolerance of white.
C11_ClearedFarFromTarget ==
    /\ pc = "cleaned"
    /\ req.cleanup_residual_green /\ ~req.cleanup_green_edge_only
    /\ req.target_rgb = White
    /\ \E i \in Cells(rgba) :
         /\ Alpha(BeforeCleanup, i) > 0 /\ Alpha(rgba, i) = 0
         /\ ~is_near_color(Rgb(rgba.px[i]), White, GreenTol(req))

-----------------------------------------------------------------------------
(* Properties of erode_alpha on grids whose alpha is 0 or 255 everywhere *)

Binary(g) == \A i \in Cells(g) : Alpha(g, i) \in {0, 255}

\* Some pixel of g within Manhattan distance d of cell i is fully transparent.
ClearWithin(g, i, d) ==
    \E j \in Cells(g) : Alpha(g, j) = 0 /\ Manhattan(i, j, g.w) <= d

\* C12: on a grid whose alpha is 0 or 255 everywhere, a pixel is opaque after
\* erode_px = k exactly if it is opaque in the input and no transparent input
\* pixel lies within Manhattan distance k of it inside the grid; and each
\* iteration clears exactly the opaque pixels that had a transparent 4-neighbour
\* when the iteration began (marks take effect only in the next iteration).
C12_ErosionIsManhattanShrink ==
    Binary(rgba) =>
        /\ \A k \in 1 .. Len(runs) :
              \A i \in Cells(rgba) :
                  /\ Alpha(runs[k], i) \in {0, 255}
                  /\ Alpha(runs[k], i) = 255
                        <=> (Alpha(rgba, i) = 255 /\ ~ClearWithin(rgba, i, k - 1))
        /\ \A k \in 1 .. (Len(runs) - 1) :
              \A i \in Cells(rgba) :
                  Alpha(runs[k + 1], i) = 255
                      <=> (Alpha(runs[k], i) = 255 /\ ~ClearWithin(runs[k], i, 1))

\* C12 witness: erosions up to erode_px = 2 of a grid of alpha 0 and 255, with a
\* pixel two steps from the transparent pixels that is opaque after erode_px = 1
\* and cleared by erode_px = 2, and a pixel further away that is still opaque.
C12_Witness ==
    /\ Len(runs) >= 3
    /\ Binary(rgba)
    /\ \E i \in Cells(rgba) : Alpha(runs[2], i) = 255 /\ Alpha(runs[3], i) = 0
    /\ \E i \in Cells(rgba) : Alpha(runs[3], i) = 255
    /\ \E i \in Cells(rgba) : Alpha(rgba, i) = 0

-----------------------------------------------------------------------------
(* The strict-tolerance clamp and the two-stage scan on their own (lines 453-467): *)
(* runs holds the locals <<tol_strict, tol_relaxed>> once they are set.            *)

\* Largest strict_tolerance and color_tolerance drawn.
ClampMost == 45

\* One-colour keying images of 1 x 1 and 3 x 3 pixels.
ClampGrids ==
    UNION {GridsOver(n, n, c, {}, 0) : <<n, c>> \in {1, 3} \X {White, NearWhite, Grey}}

ClampInit ==
    /\ pc = "clamp_start"
    /\ \E strict \in 0 .. ClampMost, relaxed \in 0 .. ClampMost :
         req = StartReq(White, relaxed, strict, TRUE)
    /\ img_key \in ClampGrids
    /\ img = img_key
    /\ border_bg = <<>>
    /\ q = <<>>
    /\ reordered = FALSE
    /\ rgba = NoGrid
    /\ runs = <<>>

\* tol_relaxed, tol_strict and the clamp (lines 453-460)
ClampTolerances ==
    /\ pc = "clamp_start"
    /\ runs' = <<StrictPassed(req), req.color_tolerance>>
    /\ pc' = "clamped"
    /\ UNCHANGED <<img, img_key, req, border_bg, q, reordered, rgba>>

\* The two-stage call (lines 462-467)
ClampScan ==
    /\ pc = "clamped"
    /\ border_bg' = floodfill_border_bg_mask_two_stage_1d(img_key, req.target_rgb,
                                                          runs[1], runs[2])
    /\ pc' = "clamp_scanned"
    /\ UNCHANGED <<img, img_key, req, q, reordered, rgba, runs>>

ClampNext == ClampTolerances \/ ClampScan

SpecClamp == ClampInit /\ [][ClampNext]_vars

\* C13: in two-stage mode the strict tolerance handed to the flood fill is never
\* greater than the relaxed tolerance, whatever the two configured tolerances
\* are, and every pixel the scan flags (the seeded boundary pixels among them)
\* matches the target within the relaxed tolerance.
C13_StrictNotAboveRelaxed ==
    /\ pc \in {"clamped", "clamp_scanned"} => runs[1] <= runs[2]
    /\ pc = "clamp_scanned" =>
          \A i \in Cells(img_key) :
              border_bg[i] = 1 =>
                  is_near_color(img_key.px[i], req.target_rgb, runs[2])

\* C13, a run where the clamp does what it is for: the configured strict
\* tolerance is not below the relaxed one and the one handed over is.
C13_ClampedBelowRelaxed ==
    /\ pc = "clamp_scanned"
    /\ req.strict_tolerance >= req.color_tolerance
    /\ runs[1] < runs[2]
    /\ \E i \in Cells(img_key) : border_bg[i] = 1

====
